---------------------------- MODULE Spec2Model ----------------------------
(***************************************************************************)
(* Sidecar lifecycle of the two desktop entry points                       *)
(*   src/src-tauri/src/main.rs      (variant "root": spawn, relay, kill)   *)
(*   src/ui/src-tauri/src/main.rs   (variant "ui": spawn in release only)  *)
(*                                                                         *)
(* The program is the setup hook (run once by the framework on the event   *)
(* loop thread), the asynchronous relay task it starts, and the window     *)
(* event closure it registers.  The child process, the operating system    *)
(* and the window framework are the environment: the child writes lines    *)
(* and exits when it likes, the OS answers kill with Ok or Err, the        *)
(* framework delivers window events while the application runs.            *)
(***************************************************************************)
EXTENDS Naturals, Sequences, FiniteSets

\* Bounds of the model (not program constants).
MaxLines == 3        \* output events one child writes at most
MaxDestroyed == 2    \* Destroyed notifications the framework delivers at most

VARIABLES
    variant,       \* "root" | "ui": which main.rs is built
    debug,         \* debug_assertions of the build
    bundled,       \* the sidecar binary resolves for this platform
    osSpawnOk,     \* the OS agrees to create the process
    app,           \* "setup" | "running" | "exited" | "panicked"
    pc,            \* index of the next step of the setup hook in SetupSteps
    spawnError,    \* "none" | "SidecarNotFound" | "SpawnError"
    attempts,      \* number of calls of spawn() made so far
    children,      \* OS state of every process spawned, in spawn order
    produced,      \* events the child has written so far, in order
    rx,            \* events in flight on the child's event stream
    rxClosed,      \* every sender of the stream is gone
    relay,         \* "none" | "awaiting" | "done"
    sink,          \* what println! has written for the relay task
    localChild,    \* handle held by the setup hook's `child` (0: none)
    handler,       \* the on_window_event closure is registered
    closureChild,  \* handle captured by the closure (0: none)
    kills,         \* every child.kill() call: target handle, the state the
                   \* child was found in, and the result
    destroyed,     \* Destroyed notifications delivered so far
    lastEvent      \* the window event delivered last ("none" before any)

vars == <<variant, debug, bundled, osSpawnOk, app, pc, spawnError, attempts,
          children, produced, rx, rxClosed, relay, sink, localChild, handler,
          closureChild, kills, destroyed, lastEvent>>

build == <<variant, debug, bundled, osSpawnOk>>
stream == <<produced, rx, rxClosed>>

Variants == {"root", "ui"}
WindowEvents == {"Resized", "Focused", "CloseRequested", "Destroyed"}
EventKinds == {"Stdout", "Stderr"}

\* A process that is still in the OS process list and executing.
Live == {"Running", "KillPending"}
\* A process that is gone: it exited on its own, or the kill took effect.
Gone == {"Exited", "Killed"}

(***************************************************************************)
(* The setup hook, as the sequence of its statements.                      *)
(***************************************************************************)
SetupStepsDebugSpawns ==
    IF variant = "root"
    THEN <<"resolve", "spawn", "relay", "register", "return">>
    ELSE <<"resolve", "spawn", "return">>

SetupStepsRegisterFirst ==
    IF variant = "root"
    THEN <<"resolve", "register", "spawn", "relay", "return">>
    ELSE IF debug THEN <<"return">> ELSE <<"resolve", "spawn", "return">>

SetupSteps ==
    IF variant = "root"
    THEN <<"resolve", "spawn", "relay", "register", "return">>
    ELSE IF debug THEN <<"return">> ELSE <<"resolve", "spawn", "return">>

AtStep(s) == app = "setup" /\ pc <= Len(SetupSteps) /\ SetupSteps[pc] = s

\* .expect(..) on an Err: the panic unwinds out of the setup hook and ends
\* the application.
Panic == app' = "panicked"

\* Whether the process of the application is still there to run its tasks.
Alive == app \in {"setup", "running"}

Init ==
    /\ variant \in Variants
    /\ debug \in BOOLEAN
    /\ bundled \in BOOLEAN
    /\ osSpawnOk \in BOOLEAN
    /\ app = "setup"
    /\ pc = 1
    /\ spawnError = "none"
    /\ attempts = 0
    /\ children = <<>>
    /\ produced = <<>>
    /\ rx = <<>>
    /\ rxClosed = FALSE
    /\ relay = "none"
    /\ sink = <<>>
    /\ localChild = 0
    /\ handler = FALSE
    /\ closureChild = 0
    /\ kills = <<>>
    /\ destroyed = 0
    /\ lastEvent = "none"

\* Command::new_sidecar("ck3-engine").expect(..) / shell.sidecar("api_server").expect(..)
SetupResolveFallback ==
    /\ AtStep("resolve")
    /\ IF bundled
       THEN /\ pc' = pc + 1
            /\ UNCHANGED <<app, spawnError>>
       ELSE /\ spawnError' = "SidecarNotFound"
            /\ pc' = pc + 2
            /\ UNCHANGED app
    /\ UNCHANGED <<build, attempts, children, stream, relay, sink, localChild,
                   handler, closureChild, kills, destroyed, lastEvent>>

SetupResolve ==
    /\ AtStep("resolve")
    /\ IF bundled
       THEN /\ pc' = pc + 1
            /\ UNCHANGED <<app, spawnError>>
       ELSE /\ spawnError' = "SidecarNotFound"
            /\ Panic
            /\ UNCHANGED pc
    /\ UNCHANGED <<build, attempts, children, stream, relay, sink, localChild,
                   handler, closureChild, kills, destroyed, lastEvent>>

\* .spawn().expect(..): the root variant binds (rx, child); the ui variant
\* drops the returned pair at the end of the statement.
SetupSpawnRetry ==
    /\ AtStep("spawn")
    /\ attempts' = attempts + 1
    /\ IF osSpawnOk
       THEN /\ children' = Append(children, "Running")
            /\ localChild' = IF variant = "root" THEN Len(children) + 1 ELSE 0
            /\ UNCHANGED <<app, pc, spawnError>>
       ELSE /\ spawnError' = "SpawnError"
            /\ Panic
            /\ UNCHANGED <<pc, children, localChild>>
    /\ UNCHANGED <<build, stream, relay, sink, handler, closureChild, kills,
                   destroyed, lastEvent>>

SetupSpawn ==
    /\ AtStep("spawn")
    /\ attempts' = attempts + 1
    /\ IF osSpawnOk
       THEN /\ children' = Append(children, "Running")
            /\ localChild' = IF variant = "root" THEN Len(children) + 1 ELSE 0
            /\ pc' = pc + 1
            /\ UNCHANGED <<app, spawnError>>
       ELSE /\ spawnError' = "SpawnError"
            /\ Panic
            /\ UNCHANGED <<pc, children, localChild>>
    /\ UNCHANGED <<build, stream, relay, sink, handler, closureChild, kills,
                   destroyed, lastEvent>>

\* tauri::async_runtime::spawn(async move { .. }): the task is created and
\* the hook goes on at once.
SetupRelay ==
    /\ AtStep("relay")
    /\ relay' = "awaiting"
    /\ pc' = pc + 1
    /\ UNCHANGED <<build, app, spawnError, attempts, children, stream, sink,
                   localChild, handler, closureChild, kills, destroyed,
                   lastEvent>>

\* window.on_window_event(move |event| ..): `child` moves into the closure.
SetupRegister ==
    /\ AtStep("register")
    /\ handler' = TRUE
    /\ closureChild' = localChild
    /\ localChild' = 0
    /\ pc' = pc + 1
    /\ UNCHANGED <<build, app, spawnError, attempts, children, stream, relay,
                   sink, kills, destroyed, lastEvent>>

\* Ok(()): the hook returns and the event loop starts.
SetupReturn ==
    /\ AtStep("return")
    /\ pc' = pc + 1
    /\ app' = "running"
    /\ UNCHANGED <<build, spawnError, attempts, children, stream, relay, sink,
                   localChild, handler, closureChild, kills, destroyed,
                   lastEvent>>

(***************************************************************************)
(* The child process and the operating system (environment).               *)
(***************************************************************************)
Terminated == [kind |-> "Terminated", line |-> 0]

\* The child writes one more line to stdout or stderr; the root variant
\* holds the receiver, the ui variant has dropped it.
ChildWrite(i, k) ==
    /\ i \in DOMAIN children
    /\ children[i] \in Live
    /\ Len(produced) < MaxLines
    /\ LET ev == [kind |-> k, line |-> Len(produced) + 1]
       IN  /\ produced' = Append(produced, ev)
           /\ rx' = IF variant = "root" THEN Append(rx, ev) ELSE rx
    /\ UNCHANGED <<build, app, pc, spawnError, attempts, children, rxClosed,
                   relay, sink, localChild, handler, closureChild, kills,
                   destroyed, lastEvent>>

\* The child exits on its own (crash or self-shutdown).
ChildExit(i) ==
    /\ i \in DOMAIN children
    /\ children[i] = "Running"
    /\ children' = [children EXCEPT ![i] = "Exited"]
    /\ UNCHANGED <<build, app, pc, spawnError, attempts, stream, relay, sink,
                   localChild, handler, closureChild, kills, destroyed,
                   lastEvent>>

\* The OS carries out a termination request it accepted earlier.
KillTakesEffect(i) ==
    /\ i \in DOMAIN children
    /\ children[i] = "KillPending"
    /\ children' = [children EXCEPT ![i] = "Killed"]
    /\ UNCHANGED <<build, app, pc, spawnError, attempts, stream, relay, sink,
                   localChild, handler, closureChild, kills, destroyed,
                   lastEvent>>

\* Once the child is gone its pipes reach end of file: the stream delivers
\* the Terminated event last and closes.
StreamClose ==
    /\ children # <<>>
    /\ \A i \in DOMAIN children : children[i] \in Gone
    /\ ~rxClosed
    /\ rxClosed' = TRUE
    /\ rx' = IF variant = "root" THEN Append(rx, Terminated) ELSE rx
    /\ UNCHANGED <<build, app, pc, spawnError, attempts, children, produced,
                   relay, sink, localChild, handler, closureChild, kills,
                   destroyed, lastEvent>>

(***************************************************************************)
(* The relay task: while let Some(event) = rx.recv().await { .. }          *)
(***************************************************************************)
\* println!("Engine: {}", line)
Forwarded(line) == <<"Engine: ", line>>

\* One iteration of the loop: recv() yields Some(event).
RelayRecvAll ==
    /\ relay = "awaiting"
    /\ Alive
    /\ rx # <<>>
    /\ LET event == Head(rx)
       IN  sink' = IF event.kind \in {"Stdout", "Stderr"}
                   THEN Append(sink, Forwarded(event.line))
                   ELSE sink
    /\ rx' = Tail(rx)
    /\ UNCHANGED <<build, app, pc, spawnError, attempts, children, produced,
                   rxClosed, relay, localChild, handler, closureChild, kills,
                   destroyed, lastEvent>>

RelayRecvStopsOnOther ==
    /\ relay = "awaiting"
    /\ Alive
    /\ rx # <<>>
    /\ LET event == Head(rx)
       IN  /\ sink' = IF event.kind = "Stdout"
                      THEN Append(sink, Forwarded(event.line))
                      ELSE sink
           /\ relay' = IF event.kind = "Stdout" THEN relay ELSE "done"
    /\ rx' = Tail(rx)
    /\ UNCHANGED <<build, app, pc, spawnError, attempts, children, produced,
                   rxClosed, localChild, handler, closureChild, kills,
                   destroyed, lastEvent>>

RelayRecv ==
    /\ relay = "awaiting"
    /\ Alive
    /\ rx # <<>>
    /\ LET event == Head(rx)
       IN  sink' = IF event.kind = "Stdout"
                   THEN Append(sink, Forwarded(event.line))
                   ELSE sink
    /\ rx' = Tail(rx)
    /\ UNCHANGED <<build, app, pc, spawnError, attempts, children, produced,
                   rxClosed, relay, localChild, handler, closureChild, kills,
                   destroyed, lastEvent>>

\* recv() yields None on a closed, drained stream: the loop and the task end.
RelayEndNever ==
    /\ relay = "awaiting"
    /\ Alive
    /\ rx = <<>>
    /\ rxClosed
    /\ UNCHANGED vars

RelayEnd ==
    /\ relay = "awaiting"
    /\ Alive
    /\ rx = <<>>
    /\ rxClosed
    /\ relay' = "done"
    /\ UNCHANGED <<build, app, pc, spawnError, attempts, children, stream,
                   sink, localChild, handler, closureChild, kills, destroyed,
                   lastEvent>>

(***************************************************************************)
(* The event loop: window events and the registered closure.               *)
(***************************************************************************)
\* The event loop thread is free to dispatch a window event.
EventLoopWaitsForRelay == app = "running" /\ relay # "awaiting"

EventLoopFree == app = "running"

\* What the OS may answer to a termination request.
KillResults(st) == {"Ok", "Err"}

KillEffectRevives(st, r) == IF r = "Ok" THEN "KillPending" ELSE st

\* An accepted request is carried out later; nothing waits for it here.
KillEffect(st, r) == IF r = "Ok" /\ st = "Running" THEN "KillPending" ELSE st

OnWindowEventKillsOnClose(e) ==
    /\ EventLoopFree
    /\ e = "Destroyed" => destroyed < MaxDestroyed
    /\ lastEvent' = e
    /\ destroyed' = IF e = "Destroyed" THEN destroyed + 1 ELSE destroyed
    /\ IF handler /\ e \in {"Destroyed", "CloseRequested"}
       THEN \E r \in KillResults(children[closureChild]) :
               /\ kills' = Append(kills, [target |-> closureChild,
                                          found |-> children[closureChild],
                                          result |-> r])
               /\ children' = [children EXCEPT ![closureChild] =
                                  KillEffect(children[closureChild], r)]
               /\ app' = IF r = "Err" THEN "panicked" ELSE app
       ELSE UNCHANGED <<kills, children, app>>
    /\ UNCHANGED <<build, pc, spawnError, attempts, stream, relay, sink,
                   localChild, handler, closureChild>>

\* The framework delivers window event e; the closure, if registered, runs:
\*   Destroyed => child.kill().expect("Failed to kill sidecar"),  _ => {}
OnWindowEvent(e) ==
    /\ EventLoopFree
    /\ e = "Destroyed" => destroyed < MaxDestroyed
    /\ lastEvent' = e
    /\ destroyed' = IF e = "Destroyed" THEN destroyed + 1 ELSE destroyed
    /\ IF handler /\ e = "Destroyed"
       THEN \E r \in KillResults(children[closureChild]) :
               /\ kills' = Append(kills, [target |-> closureChild,
                                          found |-> children[closureChild],
                                          result |-> r])
               /\ children' = [children EXCEPT ![closureChild] =
                                  KillEffect(children[closureChild], r)]
               /\ app' = IF r = "Err" THEN "panicked" ELSE app
       ELSE UNCHANGED <<kills, children, app>>
    /\ UNCHANGED <<build, pc, spawnError, attempts, stream, relay, sink,
                   localChild, handler, closureChild>>

\* The last window is gone: run() returns and the process exits.
AppExit ==
    /\ app = "running"
    /\ destroyed >= 1
    /\ app' = "exited"
    /\ UNCHANGED <<build, pc, spawnError, attempts, children, stream, relay,
                   sink, localChild, handler, closureChild, kills, destroyed,
                   lastEvent>>

Next ==
    \/ SetupResolve
    \/ SetupSpawn
    \/ SetupRelay
    \/ SetupRegister
    \/ SetupReturn
    \/ \E i \in DOMAIN children, k \in EventKinds : ChildWrite(i, k)
    \/ \E i \in DOMAIN children : ChildExit(i)
    \/ \E i \in DOMAIN children : KillTakesEffect(i)
    \/ StreamClose
    \/ RelayRecv
    \/ RelayEnd
    \/ \E e \in WindowEvents : OnWindowEvent(e)
    \/ AppExit

Spec == Init /\ [][Next]_vars

\* The async runtime runs a task that is ready; the OS carries out an
\* accepted kill and closes the pipes of a process that is gone.
FairSpec ==
    /\ Spec
    /\ WF_vars(RelayRecv)
    /\ WF_vars(RelayEnd)
    /\ WF_vars(StreamClose)
    /\ WF_vars(\E i \in DOMAIN children : KillTakesEffect(i))

(***************************************************************************)
(* Properties                                                              *)
(***************************************************************************)
Spawned == children # <<>>
KillIssued == kills # <<>>
NumHandles == (IF localChild # 0 THEN 1 ELSE 0) + (IF closureChild # 0 THEN 1 ELSE 0)
IsPrefix(s, t) == Len(s) <= Len(t) /\ \A i \in 1..Len(s) : s[i] = t[i]
IsStdout(e) == e.kind = "Stdout"
\* What the sink must show for the events s: the stdout lines, in order.
Expected(s) ==
    LET out == SelectSeq(s, IsStdout)
    IN  [i \in 1..Len(out) |-> Forwarded(out[i].line)]

\* C1: in every variant that spawned a sidecar, once a Destroyed event has
\* been delivered a kill has been issued for the child, and no run ends with
\* the window destroyed, the application exited and the child still running.
C1_KillOnDestroyed ==
    /\ (Spawned /\ destroyed >= 1) => KillIssued
    /\ (Spawned /\ destroyed >= 1 /\ app = "exited")
          => \A i \in DOMAIN children : children[i] # "Running"

\* C2: at most one live child process handle exists: spawn() is called at
\* most once, at most one process is ever created, and at most one of the
\* hook's local and the closure holds a handle.
C2_AtMostOneHandle ==
    /\ attempts <= 1
    /\ Len(children) <= 1
    /\ NumHandles <= 1

C2_Witness ==
    /\ Len(children) = 1
    /\ closureChild = 1
    /\ localChild = 0
    /\ app = "running"
    /\ lastEvent = "Resized"

\* C3: over any sequence of window events, more than one Destroyed included,
\* kill is issued on the child process handle at most once.
C3_KillAtMostOnce == Len(kills) <= 1

\* C4: if the child exited on its own before the window is destroyed,
\* handling the Destroyed event does not panic the application.
C4_NoCrashAfterChildExit ==
    ~(/\ app = "panicked"
      /\ KillIssued
      /\ kills[Len(kills)].found = "Exited")

\* C5: whenever kill has returned Ok, the child is Terminated (no longer
\* running).
C5_KillOkMeansTerminated ==
    \A i \in DOMAIN kills :
        kills[i].result = "Ok" => children[kills[i].target] \in Gone

\* C6: the sink always shows a prefix of the stdout lines the child wrote,
\* each once and in the order produced; for a child that exited with no
\* Destroyed event delivered, a finished relay task has forwarded all of them.
C6_RelayExact ==
    /\ IsPrefix(sink, Expected(produced))
    /\ (relay = "done" /\ destroyed = 0) => sink = Expected(produced)

C6_Witness ==
    /\ relay = "done"
    /\ destroyed = 0
    /\ children = <<"Exited">>
    /\ Len(sink) = 2
    /\ Len(produced) = 3

\* C7: if sidecar resolution or spawn fails, startup is aborted with no
\* retry, no child process exists, and neither the relay task nor the
\* window-event closure is ever installed.
C7_SpawnFailureAborts ==
    spawnError # "none" =>
        /\ app = "panicked"
        /\ attempts <= 1
        /\ children = <<>>
        /\ relay = "none"
        /\ ~handler
        /\ NumHandles = 0
        /\ sink = <<>>
        /\ kills = <<>>

C7_Witness == spawnError = "SpawnError" /\ variant = "root" /\ attempts = 1

\* C8: no line reaches the sink and no relay task exists before spawn has
\* succeeded; the closure is registered holding the handle of the child that
\* was spawned, and every kill it issues targets that child.
C8_SpawnPrecedesUse ==
    /\ (sink # <<>> \/ relay # "none") => Spawned
    /\ handler => closureChild \in DOMAIN children
    /\ \A i \in DOMAIN kills : kills[i].target \in DOMAIN children

C8_Witness == handler /\ sink # <<>> /\ KillIssued /\ kills[1].target = 1

\* C9: under fair scheduling, a relay task awaiting on the stream of a child
\* that is gone (exited on its own or killed) eventually ends, unless the
\* application's process ends first.
C9_RelayTerminates ==
    (relay = "awaiting" /\ Spawned /\ \A i \in DOMAIN children : children[i] \in Gone)
        ~> (relay = "done" \/ ~Alive)

C9_Witness == relay = "done" /\ children = <<"Killed">> /\ app = "running"

\* C10: whenever the application runs, the child is running and the relay
\* task is suspended on an empty stream, a Destroyed event can be handled
\* and the kill is issued in that very step.
KillOnDestroyed == OnWindowEvent("Destroyed") /\ Len(kills') = Len(kills) + 1

C10_DestroyedNotBlocked ==
    (/\ app = "running"
     /\ handler
     /\ relay = "awaiting"
     /\ rx = <<>>
     /\ destroyed < MaxDestroyed) => ENABLED KillOnDestroyed

C10_Witness ==
    /\ relay = "awaiting"
    /\ produced = <<>>
    /\ KillIssued
    /\ kills[1].found = "Running"
    /\ app = "running"

\* C11: the child only moves NotStarted -> Spawned -> Terminated: a process
\* is created at most once, a process that is gone stays gone, and once the
\* child is gone nothing is spawned again (no restart, no further attempt).
C11_ChildLifecycle ==
    [][ /\ Len(children') \in {Len(children), Len(children) + 1}
        /\ Len(children') <= 1
        /\ \A i \in DOMAIN children :
              /\ children[i] \in Gone => children'[i] = children[i]
              /\ children[i] \in Gone =>
                    (attempts' = attempts /\ Len(children') = Len(children))
              /\ children'[i] = "Running" => children[i] = "Running"
      ]_vars

C11_Witness ==
    /\ children = <<"Exited">>
    /\ app = "running"
    /\ KillIssued
    /\ kills[1].found = "Exited"
    /\ kills[1].result = "Ok"

\* C12: delivering a window event other than Destroyed leaves the child
\* process state, the process handle and the application unchanged and
\* issues no kill.
C12_OnlyDestroyedKills ==
    [][ \A e \in WindowEvents \ {"Destroyed"} :
            OnWindowEvent(e) =>
                UNCHANGED <<children, localChild, closureChild, handler,
                            kills, app, destroyed>>
      ]_vars

C12_Witness ==
    /\ lastEvent = "CloseRequested"
    /\ handler
    /\ children = <<"Running">>
    /\ kills = <<>>
    /\ app = "running"

\* C13: in the ui variant the build switch never changes at run time; a
\* debug build never attempts a spawn and never has a child; a release build
\* calls spawn() at most once, and once its setup hook is over the sidecar
\* block has run once (spawn() was called once, or resolution failed).
C13_BuildSwitch ==
    /\ [](variant = "ui" =>
            /\ debug => (attempts = 0 /\ children = <<>> /\ spawnError = "none")
            /\ ~debug =>
                  /\ attempts <= 1
                  /\ Len(children) <= attempts
                  /\ app # "setup" =>
                        (attempts = 1 \/ spawnError = "SidecarNotFound"))
    /\ [][debug' = debug /\ variant' = variant]_vars

C13_Witness ==
    /\ variant = "ui"
    /\ debug
    /\ app = "exited"
    /\ children = <<>>
    /\ attempts = 0

\* C14: a step of the relay task that consumes an event forwards it if and
\* only if it is a Stdout event and ends the loop in neither case; no stdout
\* line is lost behind another event (sink plus the stdout lines still in
\* flight are the stdout lines written).
C14_OnlyStdoutForwarded ==
    /\ [][ (relay = "awaiting" /\ rx # <<>> /\ rx' = Tail(rx)) =>
              /\ relay' = "awaiting"
              /\ sink' = IF Head(rx).kind = "Stdout"
                         THEN Append(sink, Forwarded(Head(rx).line))
                         ELSE sink
         ]_vars
    /\ [](variant = "root" => sink \o Expected(rx) = Expected(produced))

C14_Witness ==
    /\ Len(produced) >= 2
    /\ produced[1].kind = "Stderr"
    /\ produced[2].kind = "Stdout"
    /\ sink = <<Forwarded(2)>>
    /\ relay = "done"

=============================================================================
